---- MODULE Spec2Model ----
(***************************************************************************)
(* BingSearch retriever (dspy/retrieve/bingsearch_rm.py).                  *)
(*                                                                         *)
(* One adapter instance, built by __init__, then called any number of      *)
(* times through forward.  forward and _search run in one thread; every    *)
(* requests.get blocks, so a transport call is modelled as two steps: the  *)
(* call is issued (it is in flight) and then it completes or raises.       *)
(* The search provider and the web are the environment: what a transport   *)
(* call gives back is chosen freely at each completion.  When forward has  *)
(* ended the caller holds its outcome (pc = "done"); it then either drops  *)
(* it and is free to call again, or repeats a bare-string call at once as  *)
(* a one-element list, keeping the first call's record for comparison.     *)
(***************************************************************************)
EXTENDS Integers, Sequences, FiniteSets

\* ---------------------------------------------------------------- bounds
MaxK == 2          \* counts (default and override) range over 0..MaxK
MaxEntries == 2    \* the provider's "value" list holds 0..MaxEntries entries
MaxQueries == 2    \* a query list holds at most MaxQueries strings

\* ------------------------------------------------------------- constants
SearchPath == <<"/v7.0", "/search">>      \* the literal "/v7.0/search"
DefaultMarket == "en-us"
SubscriptionKey == "KEY"

\* Query strings: the empty string and two distinct non-empty ones.
QueryStrings == {"", "a", "b"}

\* Endpoint strings the caller may pass, as sequences of path pieces.
CtorEndpoints ==
    { <<"host">>,
      <<"host", "/v7.0", "/search">>,
      <<"host", "/v7.0", "/search", "/">> }

SeqsUpTo(S, n) == UNION { [1..m -> S] : m \in 0..n }

QueryLists == SeqsUpTo(QueryStrings, MaxQueries)

\* forward's k argument: Optional[int]
NoK == [given |-> FALSE, val |-> 0]
GivenK(n) == [given |-> TRUE, val |-> n]
KArgs == {NoK} \cup { GivenK(n) : n \in 0..MaxK }

\* forward's query_or_queries argument: a str or a list of str
StrArg(s) == [isStr |-> TRUE, val |-> s]
ListArg(qs) == [isStr |-> FALSE, val |-> qs]

\* ------------------------------------------------------------- strings
\* Python's  sub in s  for strings held as sequences
Contains(s, sub) ==
    \E i \in 1..(Len(s) + 1) :
        /\ i + Len(sub) - 1 <= Len(s)
        /\ SubSeq(s, i, i + Len(sub) - 1) = sub

\* __init__, lines 30-32
NormalizeEndpoint(e) == IF ~Contains(e, SearchPath) THEN e \o SearchPath ELSE e

\* ------------------------------------------------------- provider data
\* Entry j of the provider's answer to a request for query q.
Entry(q, j) == [snippet |-> [snippetOf |-> q, rank |-> j],
               displayUrl |-> [urlOf |-> q, rank |-> j]]

\* response.json(): without the "webPages" key, or with n entries under it
NoWebPages == [hasWebPages |-> FALSE, value |-> <<>>]
WebPages(q, n) == [hasWebPages |-> TRUE, value |-> [j \in 1..n |-> Entry(q, j)]]

\* The body served at a url: markup around one piece of visible text.
Tag(name) == [isTag |-> TRUE, body |-> name]
Text(u) == [isTag |-> FALSE, body |-> u]
PageAt(u) == <<Tag("p"), Text(u), Tag("/p")>>

IsText(t) == ~t.isTag
\* BeautifulSoup(page, "html.parser").get_text(): the strings, without the tags
GetText(page) == [i \in 1..Len(SelectSeq(page, IsText)) |-> SelectSeq(page, IsText)[i].body]

\* ---------------------------------------------------------------- state
VARIABLES
    config,        \* the instance's fields set by __init__
    ctorArgs,      \* the arguments __init__ was given
    bs4Available,  \* whether  from bs4 import BeautifulSoup  succeeds
    usedOverride,  \* whether some call on this instance was given a k
    pc,            \* where the thread is: idle, loop, get, pages, getpage, done
    arg,           \* forward's query_or_queries of the current (or last) call
    kArg,          \* forward's k of the current (or last) call
    k,             \* forward's local k, after line 50
    queries,       \* forward's local queries, after line 52
    qi,            \* index of the for loop of line 55
    passages,      \* forward's local passages
    responses,     \* the parsed response of each query searched so far
    returned,      \* what _search returned for each query searched so far
    urls,          \* _search's local urls
    pages,         \* _search's list of fetched pages, under construction
    inflight,      \* the transport calls issued and not completed
    trace,         \* the transport calls issued in this call, in order
    answers,       \* what each completed transport call of this call gave back
    outcome,       \* how the last forward call ended
    prev           \* the record of the bare-string call this call repeats

vars == <<config, ctorArgs, bs4Available, usedOverride, pc, arg, kArg, k, queries, qi,
          passages, responses, returned, urls, pages, inflight, trace, answers,
          outcome, prev>>

cfgVars == <<config, ctorArgs, bs4Available>>

NoOutcome == [kind |-> "none", passages |-> <<>>]
Prediction(ps) == [kind |-> "Prediction", passages |-> ps]
Raised(e) == [kind |-> e, passages |-> <<>>]

\* What the environment gave back to one transport call.
Answer(kind, n) == [kind |-> kind, n |-> n]

NoPrev == [set |-> FALSE, outcome |-> NoOutcome, trace |-> <<>>, answers |-> <<>>]

\* dotdict({"long_text": passage})
Passage(t) == [long_text |-> t]

\* __init__, lines 21-37
Construct(endpoint, choice, defaultK) ==
    [ bing_search_v7_subscription_key |-> SubscriptionKey,
      bing_search_v7_endpoint |-> NormalizeEndpoint(endpoint),
      bing_result_choice |-> choice,
      search_market |-> DefaultMarket,
      k |-> defaultK ]

Init ==
    /\ \E e \in CtorEndpoints, c \in {"SNIPPET", "WEBPAGE"}, dk \in 1..MaxK :
         /\ config = Construct(e, c, dk)
         /\ ctorArgs = [endpoint |-> e, choice |-> c, k |-> dk]
    /\ bs4Available \in BOOLEAN
    /\ usedOverride = FALSE
    /\ pc = "idle"
    /\ arg = StrArg("")
    /\ kArg = NoK
    /\ k = 0
    /\ queries = <<>>
    /\ qi = 1
    /\ passages = <<>>
    /\ responses = <<>>
    /\ returned = <<>>
    /\ urls = <<>>
    /\ pages = <<>>
    /\ inflight = {}
    /\ trace = <<>>
    /\ answers = <<>>
    /\ outcome = NoOutcome
    /\ prev = NoPrev

\* ------------------------------------------------------------- forward
\* line 50 written as  k = k or self.k
EffectiveKFalsy(ka, selfK) == IF ka.given /\ ka.val # 0 THEN ka.val ELSE selfK

\* line 50
EffectiveK(ka, selfK) == IF ka.given THEN ka.val ELSE selfK

\* line 51 losing a bare string instead of wrapping it
WrapArgDropsStr(a) == IF a.isStr THEN <<>> ELSE a.val

\* line 51
WrapArg(a) == IF a.isStr THEN <<a.val>> ELSE a.val

\* line 52 without its filter
TruthyAlways(q) == TRUE

\* line 52:  [q for q in queries if q]
Truthy(q) == q # ""
FilterQueries(qs) == SelectSeq(qs, Truthy)

\* lines 66-75: the GET sent to the search endpoint
SearchRequest(q, count) ==
    [ kind |-> "search",
      endpoint |-> config.bing_search_v7_endpoint,
      key |-> config.bing_search_v7_subscription_key,
      q |-> q,
      count |-> count,
      mkt |-> config.search_market,
      rank |-> 0 ]

\* line 93: the GET sent to a result's displayUrl
PageRequest(u) ==
    [ kind |-> "page",
      endpoint |-> <<>>,
      key |-> "",
      q |-> u.urlOf,
      count |-> 0,
      mkt |-> "",
      rank |-> u.rank ]

\* range(k), as the 1-based positions of the value list it reads
RangeK(n) == 1..n

\* lines 89-90 and 107-108: indexing value[i] for i in range(k) goes out of range
IndexRaises(resp, n) == \E i \in RangeK(n) : i > Len(resp.value)

\* lines 81-84 without the check for the key
MissingWebPagesNever(resp) == FALSE

\* line 81:  "webPages" not in response_json
MissingWebPages(resp) == ~resp.hasWebPages

\* lines 106-109 reading the entries from the last one back
SnippetsReversed(resp, n) == [i \in RangeK(n) |-> resp.value[n - i + 1].snippet]

\* lines 106-109
Snippets(resp, n) == [i \in RangeK(n) |-> resp.value[i].snippet]

\* lines 88-91 reading the entries from the last one back
DisplayUrlsReversed(resp, n) == [i \in RangeK(n) |-> resp.value[n - i + 1].displayUrl]

\* lines 88-91
DisplayUrls(resp, n) == [i \in RangeK(n) |-> resp.value[i].displayUrl]

\* line 58: passages.extend(dotdict({"long_text": passage}) for passage in results)
Extend(ps, results) == ps \o [i \in 1..Len(results) |-> Passage(results[i])]

\* A transport failure caught in forward, which returns what it has so far.
RaiseUnlessTransport(e) ==
    /\ outcome' = IF e = "TransportError" THEN Prediction(passages) ELSE Raised(e)
    /\ pc' = "done"

\* An exception leaves forward: no value is returned.
Raise(e) ==
    /\ outcome' = Raised(e)
    /\ pc' = "done"

\* _search returns results to the loop of line 55, which extends passages.
SearchReturns(results) ==
    /\ returned' = Append(returned, results)
    /\ passages' = Extend(passages, results)
    /\ qi' = qi + 1
    /\ pc' = "loop"

\* forward is entered: lines 50-53
Enter(a, ka) ==
    /\ arg' = a
    /\ kArg' = ka
    /\ usedOverride' = (usedOverride \/ ka.given)
    /\ k' = EffectiveK(ka, config.k)
    /\ queries' = FilterQueries(WrapArg(a))
    /\ qi' = 1
    /\ passages' = <<>>
    /\ responses' = <<>>
    /\ returned' = <<>>
    /\ urls' = <<>>
    /\ pages' = <<>>
    /\ inflight' = {}
    /\ trace' = <<>>
    /\ answers' = <<>>
    /\ outcome' = NoOutcome
    /\ pc' = "loop"
    /\ UNCHANGED cfgVars

\* The caller calls forward with a bare string.
ForwardStr ==
    /\ pc = "idle"
    /\ \E s \in QueryStrings, ka \in KArgs : Enter(StrArg(s), ka)
    /\ UNCHANGED prev

\* The caller calls forward with a list of strings.
ForwardList ==
    /\ pc = "idle"
    /\ \E qs \in QueryLists, ka \in KArgs : Enter(ListArg(qs), ka)
    /\ UNCHANGED prev

\* The caller repeats the bare-string call that just ended, on the same
\* instance and with the same k, passing the string in a one-element list.
ForwardRepeatAsList ==
    /\ pc = "done"
    /\ arg.isStr
    /\ prev' = [set |-> TRUE, outcome |-> outcome, trace |-> trace, answers |-> answers]
    /\ Enter(ListArg(<<arg.val>>), kArg)

\* The caller drops the outcome; the call's frame is gone.
Resume ==
    /\ pc = "done"
    /\ pc' = "idle"
    /\ arg' = StrArg("")
    /\ kArg' = NoK
    /\ k' = 0
    /\ queries' = <<>>
    /\ qi' = 1
    /\ passages' = <<>>
    /\ responses' = <<>>
    /\ returned' = <<>>
    /\ urls' = <<>>
    /\ pages' = <<>>
    /\ inflight' = {}
    /\ trace' = <<>>
    /\ answers' = <<>>
    /\ outcome' = NoOutcome
    /\ prev' = NoPrev
    /\ UNCHANGED <<cfgVars, usedOverride>>

\* lines 55-56 and 65-75: the next query's request goes out
IssueSearch ==
    /\ pc = "loop"
    /\ qi <= Len(queries)
    /\ inflight' = inflight \cup {SearchRequest(queries[qi], k)}
    /\ trace' = Append(trace, SearchRequest(queries[qi], k))
    /\ pc' = "get"
    /\ UNCHANGED <<cfgVars, usedOverride, arg, kArg, k, queries, qi, passages, responses,
                   returned, urls, pages, answers, outcome, prev>>

\* lines 60-62: the loop is over
Return ==
    /\ pc = "loop"
    /\ qi > Len(queries)
    /\ outcome' = Prediction(passages)
    /\ pc' = "done"
    /\ UNCHANGED <<cfgVars, usedOverride, arg, kArg, k, queries, qi, passages, responses,
                   returned, urls, pages, inflight, trace, answers, prev>>

\* lines 76-78: requests.get raises, _search re-raises
SearchRaises ==
    /\ pc = "get"
    /\ inflight' = {}
    /\ Raise("TransportError")
    /\ answers' = Append(answers, Answer("raise", 0))
    /\ UNCHANGED <<cfgVars, usedOverride, arg, kArg, k, queries, qi, passages, responses,
                   returned, urls, pages, trace, prev>>

\* line 80: the body is not JSON, response.json() raises
ResponseNotJson ==
    /\ pc = "get"
    /\ inflight' = {}
    /\ Raise("JSONDecodeError")
    /\ answers' = Append(answers, Answer("notjson", 0))
    /\ UNCHANGED <<cfgVars, usedOverride, arg, kArg, k, queries, qi, passages, responses,
                   returned, urls, pages, trace, prev>>

\* lines 80-111: the response arrived and its body parsed to resp
SearchResponded(resp) ==
    /\ pc = "get"
    /\ inflight' = {}
    /\ IF MissingWebPages(resp)
       THEN /\ responses' = Append(responses, resp)
            /\ SearchReturns(<<>>)
            /\ UNCHANGED <<urls, pages, outcome>>
       ELSE /\ responses' = Append(responses, resp)
            /\ IF IndexRaises(resp, k)
               THEN /\ Raise("IndexError")
                    /\ UNCHANGED <<returned, passages, qi, urls, pages>>
               ELSE IF config.bing_result_choice = "WEBPAGE"
               THEN /\ urls' = DisplayUrls(resp, k)
                    /\ pages' = <<>>
                    /\ pc' = "pages"
                    /\ UNCHANGED <<returned, passages, qi, outcome>>
               ELSE /\ SearchReturns(Snippets(resp, k))
                    /\ UNCHANGED <<urls, pages, outcome>>
    /\ UNCHANGED <<cfgVars, usedOverride, arg, kArg, k, queries, trace, prev>>

\* The provider answers without the "webPages" key.
ResponseNoWebPages ==
    /\ answers' = Append(answers, Answer("nowebpages", 0))
    /\ SearchResponded(NoWebPages)

\* The provider answers with n entries under "webPages".
ResponseEntries ==
    \E n \in 0..MaxEntries :
        /\ pc = "get"
        /\ answers' = Append(answers, Answer("webpages", n))
        /\ SearchResponded(WebPages(queries[qi], n))

\* line 93: the next page's request goes out
IssueFetch ==
    /\ pc = "pages"
    /\ Len(pages) < Len(urls)
    /\ inflight' = inflight \cup {PageRequest(urls[Len(pages) + 1])}
    /\ trace' = Append(trace, PageRequest(urls[Len(pages) + 1]))
    /\ pc' = "getpage"
    /\ UNCHANGED <<cfgVars, usedOverride, arg, kArg, k, queries, qi, passages, responses,
                   returned, urls, pages, answers, outcome, prev>>

\* line 93: requests.get(url) raises; nothing catches it
FetchRaises ==
    /\ pc = "getpage"
    /\ inflight' = {}
    /\ Raise("TransportError")
    /\ answers' = Append(answers, Answer("raise", 0))
    /\ UNCHANGED <<cfgVars, usedOverride, arg, kArg, k, queries, qi, passages, responses,
                   returned, urls, pages, trace, prev>>

\* line 93: the page's text arrives
FetchOk ==
    /\ pc = "getpage"
    /\ inflight' = {}
    /\ pages' = Append(pages, PageAt(urls[Len(pages) + 1]))
    /\ answers' = Append(answers, Answer("page", 0))
    /\ pc' = "pages"
    /\ UNCHANGED <<cfgVars, usedOverride, arg, kArg, k, queries, qi, passages, responses,
                   returned, urls, trace, outcome, prev>>

\* lines 94-104: every page is fetched; import bs4 and strip the markup
ExtractText ==
    /\ pc = "pages"
    /\ Len(pages) = Len(urls)
    /\ IF bs4Available
       THEN /\ SearchReturns([i \in 1..Len(pages) |-> GetText(pages[i])])
            /\ UNCHANGED outcome
       ELSE /\ Raise("ImportError")
            /\ UNCHANGED <<returned, passages, qi>>
    /\ UNCHANGED <<cfgVars, usedOverride, arg, kArg, k, queries, responses, urls, pages,
                   inflight, trace, answers, prev>>

Next ==
    \/ ForwardStr
    \/ ForwardList
    \/ ForwardRepeatAsList
    \/ Resume
    \/ IssueSearch
    \/ Return
    \/ SearchRaises
    \/ ResponseNotJson
    \/ ResponseNoWebPages
    \/ ResponseEntries
    \/ IssueFetch
    \/ FetchRaises
    \/ FetchOk
    \/ ExtractText

Spec == Init /\ [][Next]_vars

\* ---------------------------------------------------------------- claims
\* The strings forward was given, as a list, and those of them that are
\* not empty.
InputList == IF arg.isStr THEN <<arg.val>> ELSE arg.val
IsNonEmpty(q) == q # ""
NonEmptyInput == SelectSeq(InputList, IsNonEmpty)

IsSearch(r) == r.kind = "search"
SearchRequests == SelectSeq(trace, IsSearch)

Min(a, b) == IF a <= b THEN a ELSE b

RECURSIVE Concat(_)
Concat(ss) == IF Len(ss) = 0 THEN <<>> ELSE Head(ss) \o Concat(Tail(ss))

\* Every query of the call was answered with at least k entries.
AllAnsweredWithK ==
    /\ Len(responses) = Len(InputList)
    /\ \A i \in 1..Len(responses) :
         /\ responses[i].hasWebPages
         /\ Len(responses[i].value) >= k

\* C1: in SNIPPET mode, for a non-empty sequence of non-empty queries and
\* k >= 1, when the provider answers every query with at least k entries,
\* forward returns k passages per query, in query order and then in the
\* order of the provider's entries, and passage j of query i holds the
\* snippet of entry j of the answer to query i, unmodified.
C1_SnippetPassages ==
    ( /\ pc = "done"
      /\ config.bing_result_choice = "SNIPPET"
      /\ k >= 1
      /\ Len(InputList) >= 1
      /\ \A i \in 1..Len(InputList) : InputList[i] # ""
      /\ AllAnsweredWithK )
    => /\ outcome.kind = "Prediction"
       /\ Len(outcome.passages) = k * Len(InputList)
       /\ Len(trace) = Len(InputList)
       /\ \A i \in 1..Len(InputList) :
            /\ trace[i].kind = "search"
            /\ trace[i].q = InputList[i]
            /\ \A j \in 1..k :
                 outcome.passages[(i - 1) * k + j].long_text
                     = responses[i].value[j].snippet

C1_Witness ==
    /\ pc = "done"
    /\ config.bing_result_choice = "SNIPPET"
    /\ k = 2
    /\ ~arg.isStr
    /\ arg.val = <<"a", "b">>
    /\ AllAnsweredWithK
    /\ Len(outcome.passages) = 4

\* C2: when a transport call raises, on a search request or on a page
\* fetch, at any query position, it is the last transport call of the
\* forward call (no later query is requested) and forward ends in that
\* failure: the caller gets no Prediction and none of the passages
\* accumulated from earlier queries.
C2_TransportFailureAborts ==
    \A i \in 1..Len(answers) :
        answers[i].kind = "raise"
        => /\ i = Len(answers)
           /\ Len(trace) = i
           /\ inflight = {}
           /\ pc = "done"
           /\ outcome.kind = "TransportError"
           /\ outcome.passages = <<>>

C2_Witness ==
    /\ pc = "done"
    /\ Len(answers) >= 1
    /\ answers[Len(answers)].kind = "raise"
    /\ trace[Len(trace)].kind = "page"
    /\ qi = 2
    /\ Len(passages) >= 1
    /\ outcome.kind = "TransportError"

\* C3: a query whose parsed response lacks the "webPages" key contributes
\* zero passages in either mode, raises no failure, gets no page fetch,
\* and forward goes on to the next query: the transport call after it, if
\* any, is the next query's search request, and the passages returned are
\* those of the other queries, in order.
C3_MissingKeyContributesNothing ==
    /\ \A i \in 1..Len(responses) :
         ~responses[i].hasWebPages => (Len(returned) >= i /\ returned[i] = <<>>)
    /\ \A p \in 1..Len(answers) :
         answers[p].kind = "nowebpages"
         => /\ p < Len(trace) => trace[p + 1].kind = "search"
            /\ p = Len(answers)
                 => /\ outcome.kind \in {"none", "Prediction"}
                    /\ pc \in {"loop", "get", "done"}
                    /\ qi = Len(responses) + 1
    /\ passages = [i \in 1..Len(Concat(returned)) |-> Passage(Concat(returned)[i])]
    /\ outcome.kind = "Prediction"
         => /\ outcome.passages = passages
            /\ Len(returned) = Len(NonEmptyInput)

C3_Witness ==
    /\ pc = "done"
    /\ config.bing_result_choice = "WEBPAGE"
    /\ outcome.kind = "Prediction"
    /\ Len(responses) = 2
    /\ ~responses[1].hasWebPages
    /\ responses[2].hasWebPages
    /\ Len(outcome.passages) = 2

\* C4: a query answered with n entries under "webPages" contributes
\* min(k, n) passages for every k >= 0, and no out-of-range failure occurs
\* when n < k, in both modes.
C4_ClampsToReturnedEntries ==
    \A i \in 1..Len(responses) :
        responses[i].hasWebPages
        => /\ outcome.kind # "IndexError"
           /\ i <= Len(returned)
                => Len(returned[i]) = Min(k, Len(responses[i].value))

\* C5: empty query strings never reach the search API.  A call given only
\* empty strings makes no transport call and returns a Prediction without
\* passages; a call that returns a Prediction has issued as many search
\* requests as it was given non-empty strings, and only those contribute.
C5_EmptyQueriesFiltered ==
    pc # "idle"
    => /\ \A i \in 1..Len(trace) : trace[i].q # ""
       /\ (\A i \in 1..Len(InputList) : InputList[i] = "")
            => /\ trace = <<>>
               /\ inflight = {}
               /\ pc \in {"loop", "done"}
               /\ pc = "done" => outcome = Prediction(<<>>)
       /\ outcome.kind = "Prediction"
            => /\ Len(SearchRequests) = Len(NonEmptyInput)
               /\ Len(returned) = Len(NonEmptyInput)

C5_Witness ==
    /\ pc = "done"
    /\ ~arg.isStr
    /\ arg.val = <<"", "a">>
    /\ outcome.kind = "Prediction"
    /\ Len(trace) = 1
    /\ Len(outcome.passages) >= 1

\* The count a call must use: its override when given, else the default k
\* given to __init__.
ExpectedK == IF kArg.given THEN kArg.val ELSE ctorArgs.k

\* C6: the override k applies to its call only.  When given, 0 included,
\* it is the count sent to the provider and the number of entries
\* extracted; without it the default k fixed at construction is, whatever
\* calls came before; and every configuration field keeps the value that
\* construction gave it.
C6_OverrideIsPerCall ==
    /\ config = Construct(ctorArgs.endpoint, ctorArgs.choice, ctorArgs.k)
    /\ config.k = ctorArgs.k
    /\ pc # "idle"
         => /\ k = ExpectedK
            /\ \A i \in 1..Len(trace) :
                 trace[i].kind = "search" => trace[i].count = ExpectedK
            /\ \A i \in 1..Len(returned) :
                 responses[i].hasWebPages => Len(returned[i]) = ExpectedK

C6_Witness ==
    /\ usedOverride
    /\ ~kArg.given
    /\ pc = "done"
    /\ outcome.kind = "Prediction"
    /\ Len(returned) >= 1
    /\ responses[1].hasWebPages
    /\ Len(outcome.passages) = ctorArgs.k

\* s ends with sub
EndsWith(s, sub) ==
    /\ Len(sub) <= Len(s)
    /\ SubSeq(s, Len(s) - Len(sub) + 1, Len(s)) = sub

\* C7: the endpoint always ends in "/v7.0/search", held exactly once at its
\* end: an endpoint given without that ending gets it appended once, one
\* given with it is kept as it is, whatever endpoint string the caller
\* gave, and no forward call changes it.
C7_EndpointEndsInSearchPath ==
    /\ EndsWith(config.bing_search_v7_endpoint, SearchPath)
    /\ EndsWith(ctorArgs.endpoint, SearchPath)
         => config.bing_search_v7_endpoint = ctorArgs.endpoint
    /\ ~EndsWith(ctorArgs.endpoint, SearchPath)
         => config.bing_search_v7_endpoint = ctorArgs.endpoint \o SearchPath

\* The provider of the repeated call answered as it had answered the first
\* call: wherever both calls sent the same request at the same position,
\* they got the same answer.
SameProvider ==
    \A i \in 1..Min(Len(answers), Len(prev.answers)) :
        (i <= Len(trace) /\ i <= Len(prev.trace) /\ trace[i] = prev.trace[i])
        => answers[i] = prev.answers[i]

\* C8: forward given a bare string s and forward given the list [s] end
\* the same way, with the same passages or the same failure and the same
\* transport calls, when the provider answers as a function of the
\* request; s = "" included.
C8_StringEqualsSingletonList ==
    (pc = "done" /\ prev.set /\ SameProvider)
    => /\ outcome = prev.outcome
       /\ trace = prev.trace

C8_Witness ==
    /\ pc = "done"
    /\ prev.set
    /\ SameProvider
    /\ outcome.kind = "Prediction"
    /\ Len(outcome.passages) >= 1
    /\ outcome = prev.outcome

\* C9: a missing bs4 never fails a call in SNIPPET mode, and in WEBPAGE
\* mode a call that reaches a query whose response holds "webPages" ends
\* in the ImportError, not in a transport or parse failure or any other.
C9_MissingBs4IsImportError ==
    ~bs4Available
    => /\ config.bing_result_choice = "SNIPPET" => outcome.kind # "ImportError"
       /\ ( /\ config.bing_result_choice = "WEBPAGE"
            /\ pc = "done"
            /\ \E i \in 1..Len(responses) : responses[i].hasWebPages )
          => outcome.kind = "ImportError"

\* C10: the transport calls of one forward call are strictly sequential.
\* At most one is in flight, and one is issued only when all before it
\* have completed; the search requests are those of the non-empty queries,
\* in input order, one each; in WEBPAGE mode the page fetches of a query
\* follow its search request and precede the next one, in the order of the
\* provider's entries; in SNIPPET mode there is no page fetch.
C10_SequentialTransportCalls ==
    /\ Cardinality(inflight) <= 1
    /\ Len(trace) = Len(answers) + Cardinality(inflight)
    /\ inflight # {} => inflight = {trace[Len(trace)]}
    /\ config.bing_result_choice = "SNIPPET"
         => \A p \in 1..Len(trace) : trace[p].kind = "search"
    /\ pc # "idle"
         => /\ Len(SearchRequests) <= Len(NonEmptyInput)
            /\ \A i \in 1..Len(SearchRequests) :
                 SearchRequests[i].q = NonEmptyInput[i]
    /\ outcome.kind = "Prediction" => Len(SearchRequests) = Len(NonEmptyInput)
    /\ \A p \in 1..Len(trace) :
         /\ trace[p].kind = "page"
              => /\ p > 1
                 /\ trace[p].q = trace[p - 1].q
                 /\ IF trace[p - 1].kind = "search"
                    THEN answers[p - 1].kind = "webpages" /\ trace[p].rank = 1
                    ELSE answers[p - 1].kind = "page"
                         /\ trace[p].rank = trace[p - 1].rank + 1
         /\ (trace[p].kind = "search" /\ p > 1)
              => IF trace[p - 1].kind = "page"
                 THEN answers[p - 1].kind = "page" /\ trace[p - 1].rank = k
                 ELSE answers[p - 1].kind \in {"nowebpages", "webpages"}

C10_Witness ==
    /\ pc = "done"
    /\ config.bing_result_choice = "WEBPAGE"
    /\ outcome.kind = "Prediction"
    /\ k = 2
    /\ Len(SearchRequests) = 2
    /\ Len(trace) = 6

====
